---- MODULE Spec2Model ----
(***************************************************************************)
(* Model of personal_capital_api/personal_capital.py: one PersonalCapital  *)
(* object (a "Session") of one process, the cookie cache file it shares    *)
(* with earlier and later processes, and the upstream server and browser   *)
(* as the environment that chooses every response.                         *)
(***************************************************************************)
EXTENDS Integers, Sequences, FiniteSets, TLC

\* ---------------------------------------------------------------- bounds
NumCookies == 1          \* distinct cookies the server and the browser may set

\* ------------------------------------------------------ program constants
CACHE_VERSION == 1       \* _CACHE_VERSION
SessionExpiredCode == 201
HttpOk == 200            \* requests.codes.ok
LoginTries == 10         \* range(10) of the browser login loop
DefaultChangeId == -1    \* initial _last_server_change_id

\* ----------------------------------------------------------------- values
None == "None"           \* Python None
Unset == "Unset"         \* attribute never assigned (self._email before a login)
NoField == "NoField"     \* a request that carries no csrf form field
NoCode == 0              \* an error entry without a 'code' key (.get -> None)
NoVersion == -2          \* envelope without SP_HEADER_VERSION (.get -> None)

CookieNames == 1..NumCookies
Tokens == {"t1", "t2"}
Emails == {"e1", "e2"}
AuthMethods == {"sms", "email", "carrier-pigeon", "SMS"}
Versions == (CACHE_VERSION - 1)..(CACHE_VERSION + 1)
SetCookieChoices == {{}} \cup {{c} : c \in CookieNames}

\* ------------------------------------------------------------- cache file
\* The file is a sequence of pickled fields; a file that open(..., 'wb') has
\* truncated and nothing has been dumped into yet is the empty sequence.
Absent == <<[k |-> "absent", version |-> 0, cookies |-> {}, email |-> None]>>
Truncated == <<>>

\* pickle.dump({'version':..., 'cookies':..., 'email':...}, f)
Dump(version, jar, mail) ==
    << [k |-> "version", version |-> version, cookies |-> {}, email |-> None],
       [k |-> "cookies", version |-> 0, cookies |-> jar, email |-> None],
       [k |-> "email", version |-> 0, cookies |-> {}, email |-> mail] >>

\* pickle.load(f): the whole dict or an exception (EOFError on a short file)
Parses(file) ==
    /\ Len(file) = 3
    /\ file[1].k = "version" /\ file[2].k = "cookies" /\ file[3].k = "email"

Unpickle(file) ==
    [version |-> file[1].version, cookies |-> file[2].cookies, email |-> file[3].email]

\* variant: any version from the current one upwards is accepted
VersionAtLeast(cached) == cached.version >= CACHE_VERSION

\* cached['version'] == _CACHE_VERSION
VersionMatches(cached) == cached.version = CACHE_VERSION

\* _load_cookies_from_cache: "EOFError", or the cookies, or None
LoadOutcome(file) ==
    IF file = Absent THEN [raised |-> None, found |-> FALSE, cookies |-> {}]
    ELSE IF ~Parses(file) THEN [raised |-> "EOFError", found |-> FALSE, cookies |-> {}]
    ELSE IF VersionMatches(Unpickle(file))
         THEN [raised |-> None, found |-> TRUE, cookies |-> Unpickle(file).cookies]
         ELSE [raised |-> None, found |-> FALSE, cookies |-> {}]

\* variant: the loaded jar is never installed
InitSessionCookiesDropped(loaded) == {}

\* _init_session: "if cookies:" replaces the fresh empty jar by a non-empty one
InitSessionCookies(loaded) ==
    IF loaded.found /\ loaded.cookies # {} THEN loaded.cookies ELSE {}

\* ------------------------------------------------------ response envelopes
NoErrors == [present |-> FALSE, list |-> <<>>]
Errors(list) == [present |-> TRUE, list |-> list]

ErrorShapes ==
    { NoErrors, Errors(<<>>), Errors(<<SessionExpiredCode>>), Errors(<<999>>),
      Errors(<<999, SessionExpiredCode>>), Errors(<<NoCode>>) }

Env(hdr, success, errors, tok, level, version, spData) ==
    [hdr |-> hdr, success |-> success, errors |-> errors, csrf |-> tok,
     authLevel |-> level, version |-> version, spData |-> spData]

ExpiredEnv ==
    Env(TRUE, "false", Errors(<<SessionExpiredCode>>), None, "NONE", NoVersion, TRUE)

\* envelopes that do not report success: no spHeader, no success key, success false
FailEnvs ==
    {Env(FALSE, "absent", NoErrors, None, "NONE", NoVersion, FALSE)}
    \cup {Env(TRUE, "absent", e, None, "NONE", NoVersion, FALSE) :
             e \in {NoErrors, Errors(<<SessionExpiredCode>>)}}
    \cup {Env(TRUE, "false", e, None, "NONE", NoVersion, TRUE) : e \in ErrorShapes}

\* envelopes that report success, with the fields the caller of ep reads
OkEnvs(ep) ==
    IF ep = "identifyUser"
    THEN {Env(TRUE, "true", NoErrors, t, l, NoVersion, TRUE) :
             t \in Tokens \cup {None}, l \in {"USER_REMEMBERED", "USER_IDENTIFIED"}}
    ELSE IF ep = "querySession"
    THEN {Env(TRUE, "true", NoErrors, None, "NONE", v, TRUE) : v \in {NoVersion, 0, 5}}
    ELSE IF ep = "getAccounts2"
    THEN {Env(TRUE, "true", NoErrors, None, "NONE", NoVersion, d) : d \in BOOLEAN}
    ELSE {Env(TRUE, "true", NoErrors, None, "NONE", NoVersion, TRUE)}

Resp(status, ctype, env, jar) ==
    [status |-> status, ctype |-> ctype, env |-> env, setCookies |-> jar]

\* every raw response the server may give to a request for endpoint ep
Responses(ep) ==
    {Resp(HttpOk, "application/json", e, j) :
        e \in FailEnvs \cup OkEnvs(ep), j \in SetCookieChoices}
    \cup {Resp(HttpOk, "text/json", e, {}) : e \in OkEnvs(ep)}
    \cup {Resp(204, "application/json", e, {}) : e \in OkEnvs(ep)}
    \cup {Resp(500, "application/json", ExpiredEnv, {}),
          Resp(HttpOk, "text/html", ExpiredEnv, {}),
          Resp(HttpOk, "", ExpiredEnv, {})}

\* ------------------------------------------------------------ api_request
\* re.match('text/json|application/json', content-type)
IsJsonResp(ctype) == ctype \in {"text/json", "application/json"}

\* variant: every 2xx status passes
IsTransportFailureNon2xx(resp) ==
    resp.status \notin 200..299 \/ ~IsJsonResp(resp.ctype)

\* response.status_code != requests.codes.ok or not is_json_resp
IsTransportFailure(resp) == resp.status # HttpOk \/ ~IsJsonResp(resp.ctype)

\* json_res.get('spHeader', {}).get('success', False) is False
IsUnsuccessful(env) == ~env.hdr \/ env.success # "true"

\* json_res.get('spHeader', {}).get('errors', [{}]): the list the code indexes
ErrorList(env) ==
    IF env.hdr /\ env.errors.present THEN env.errors.list ELSE <<NoCode>>

\* variant: any reported code, not the first, decides
IsSessionExpiredAnyCode(env) ==
    \E i \in 1..Len(ErrorList(env)) : ErrorList(env)[i] = SessionExpiredCode

\* ...[0].get('code', None) == 201
IsSessionExpired(env) == ErrorList(env)[1] = SessionExpiredCode

\* variant: an unsuccessful envelope is returned to the caller like a successful one
ApiRaisesTransportOnly(resp) ==
    IF IsTransportFailure(resp) THEN "TransportError" ELSE None

\* what api_request raises for a response (None: it returns json_res)
ApiRaises(resp) ==
    IF IsTransportFailure(resp) THEN "TransportError"
    ELSE IF ~IsUnsuccessful(resp.env) THEN None
    ELSE IF ErrorList(resp.env) = <<>> THEN "IndexError"
    ELSE IF IsSessionExpired(resp.env) THEN "SessionExpiredError"
    ELSE IF ~resp.env.hdr THEN "KeyError"
    ELSE "ApiError"

\* variant: expiry leaves the token in place
CsrfAfterApiKept(tok, resp) == tok

\* self._csrf = None before PersonalCapitalSessionExpiredException is raised
CsrfAfterApi(tok, resp) ==
    IF ApiRaises(resp) = "SessionExpiredError" THEN None ELSE tok

\* ------------------------------------------------------------------ state
VARIABLES
    alive,       \* the process holds a constructed Session
    pc,          \* position of the caller: "idle", a step of a login, or "done" (a call has ended)
    csrf,        \* self._csrf
    cookies,     \* self.session.cookies
    email,       \* self._email
    lsc,         \* self._last_server_change_id
    useCache,    \* self._use_cookies_cache
    cacheFile,   \* content of cached_cookies.pkl
    args,        \* arguments of the login in progress
    authLevel,   \* authLevel of the identifyUser response the login in progress holds
    numTry,      \* num_try of the browser login loop
    op,          \* the operation called last
    result,      \* how it ended: "running", "returned", "true", "false" or the error raised
    reqs,        \* the requests it has sent, in order
    cbCalls,     \* invocations of get_two_factor_code_func by login()
    last,        \* the last api_request call: token before it, envelope read, error raised
    loaded,      \* what _load_cookies_from_cache returned to __init__
    authed,      \* the login in progress has reached the authenticated state
    loginCalled, \* login() or login_via_browser() has been called on this Session
    saver,       \* other processes running _cache_cookies on the same file
    loader       \* what a _load_cookies_from_cache of another process met

vars == <<alive, pc, csrf, cookies, email, lsc, useCache, cacheFile, args, authLevel, numTry,
          op, result,          reqs, cbCalls, last, loaded, authed, loginCalled, saver, loader>>

\* the processes that share the cache file with the Session above
Writers == {"A", "B"}
NoSaver == [pc |-> "idle", pos |-> 0, jar |-> {}, mail |-> None]
NoLoader == [ran |-> FALSE, during |-> FALSE, raised |-> None]
race == <<saver, loader>>

session == <<csrf, cookies, email, lsc, useCache>>

NoArgs == [email |-> None, auth |-> None]
NoLoad == [raised |-> None, found |-> FALSE, cookies |-> {}]
NoData == [k \in {} |-> None]
NoRequest == [ep |-> None, csrf |-> NoField, cookies |-> {}, lsc |-> NoVersion,
              data |-> NoData, form |-> NoData]
NoCall == [called |-> FALSE, req |-> NoRequest, status |-> HttpOk, json |-> TRUE,
           transport |-> FALSE,
           unsuccessful |-> FALSE, hdr |-> FALSE, errors |-> NoErrors, spData |-> FALSE,
           raised |-> None]

\* the data argument each method of the class passes to api_request
DataOf(ep) ==
    IF ep = "identifyUser" THEN [username |-> args.email]
    ELSE IF ep \in {"challengeSms", "challengeEmail"}
    THEN [challengeReason |-> "DEVICE_AUTH", challengeMethod |-> "OP", bindDevice |-> "false",
          challengeType |-> IF ep = "challengeSms" THEN "challengeSMS" ELSE "challengeEmail"]
    ELSE IF ep \in {"authenticateSms", "authenticateEmailByCode"}
    THEN [challengeReason |-> "DEVICE_AUTH", challengeMethod |-> "OP", bindDevice |-> "false",
          code |-> "code"]
    ELSE IF ep = "authenticatePassword"
    THEN [bindDevice |-> "true", deviceName |-> "API script", passwd |-> "password"]
    ELSE NoData

\* the data a caller outside the class may pass to api_request: the dates of
\* get_transactions, and dicts that use the names of the three fixed fields
CallerData ==
    {[startDate |-> "2007-01-01", endDate |-> "2030-01-01"],
     [csrf |-> "forged"],
     [csrf |-> "forged", apiClient |-> "MOBILE", lastServerChangeId |-> 99]}

\* "csrf": self._csrf, "apiClient": 'WEB', "lastServerChangeId": self._last_server_change_id
FixedFields == [csrf |-> csrf, apiClient |-> "WEB", lastServerChangeId |-> lsc]

\* variant: {"csrf": ..., "apiClient": ..., "lastServerChangeId": ..., **data}
FormDataCallerLast(data) ==
    [k \in DOMAIN data \cup DOMAIN FixedFields |->
        IF k \in DOMAIN data THEN data[k] ELSE FixedFields[k]]

\* {**data, "csrf": ..., "apiClient": ..., "lastServerChangeId": ...}
FormData(data) ==
    [k \in DOMAIN data \cup DOMAIN FixedFields |->
        IF k \in DOMAIN FixedFields THEN FixedFields[k] ELSE data[k]]

\* session.request(method, url, data=...), sent with the session's cookies
RequestWith(ep, data) ==
    [ep |-> ep, csrf |-> FormData(data).csrf, cookies |-> cookies,
     lsc |-> FormData(data).lastServerChangeId, data |-> data, form |-> FormData(data)]

Request(ep) == RequestWith(ep, DataOf(ep))

\* the record of one api_request call: the request sent, the response read
\* (status and content type, success flag, errors block, spData) and the error raised
CallWith(ep, data, resp) ==
    [called |-> TRUE, req |-> RequestWith(ep, data),
     status |-> resp.status, json |-> resp.ctype \in {"text/json", "application/json"},
     transport |-> (resp.status # HttpOk \/ resp.ctype \notin {"text/json", "application/json"}),
     unsuccessful |-> (resp.env.success # "true" \/ ~resp.env.hdr),
     hdr |-> resp.env.hdr, errors |-> resp.env.errors, spData |-> resp.env.spData,
     raised |-> ApiRaises(resp)]

Call(ep, resp) == CallWith(ep, DataOf(ep), resp)

\* the cache file an earlier run of any release may have left
InitialFiles ==
    {Absent} \cup {Dump(v, j, None) : v \in Versions, j \in SUBSET CookieNames}

Init ==
    /\ alive = FALSE /\ pc = "idle"
    /\ csrf = None /\ cookies = {} /\ email = Unset /\ lsc = DefaultChangeId
    /\ useCache = FALSE
    /\ cacheFile \in InitialFiles
    /\ args = NoArgs /\ authLevel = None /\ numTry = 0
    /\ op = "none" /\ result = "none" /\ reqs = <<>> /\ cbCalls = 0
    /\ last = NoCall /\ loaded = NoLoad
    /\ authed = FALSE /\ loginCalled = FALSE
    /\ saver = [w \in Writers |-> NoSaver] /\ loader = NoLoader

\* ------------------------------------------------------------ __init__
\* PersonalCapital(use_cookies_cache=uc), in a new process or replacing the
\* Session the caller held.
Construct(uc) ==
    /\ pc = "idle"
    /\ LET ld == IF uc THEN LoadOutcome(cacheFile) ELSE NoLoad IN
       /\ loaded' = ld
       /\ op' = "init" /\ pc' = "done"
       /\ csrf' = None /\ lsc' = DefaultChangeId /\ email' = Unset
       /\ IF ld.raised # None
          THEN /\ alive' = FALSE /\ result' = ld.raised
               /\ cookies' = {} /\ useCache' = FALSE
          ELSE /\ alive' = TRUE /\ result' = "returned"
               /\ cookies' = InitSessionCookies(ld) /\ useCache' = uc
    /\ args' = NoArgs /\ authLevel' = None /\ numTry' = 0 /\ reqs' = <<>> /\ cbCalls' = 0
    /\ last' = NoCall /\ authed' = FALSE /\ loginCalled' = FALSE
    /\ UNCHANGED cacheFile

    /\ UNCHANGED race
\* the caller takes the result (or the exception) of the call that has ended;
\* what the call left behind in the Session and on disk stays
Return ==
    /\ pc = "done"
    /\ pc' = "idle"
    /\ op' = "none" /\ result' = "none" /\ reqs' = <<>> /\ cbCalls' = 0
    /\ last' = NoCall /\ loaded' = NoLoad /\ args' = NoArgs /\ authLevel' = None /\ authed' = FALSE
    /\ UNCHANGED <<alive, session, cacheFile, numTry, loginCalled>>

    /\ UNCHANGED race
\* ---------------------------------------------- api_request, called directly
\* api_request called by a user of the class with its own data; it returns the envelope
ApiRequest(data) ==
    /\ pc = "idle" /\ alive
    /\ pc' = "done"
    /\ \E resp \in Responses("custom") :
          /\ op' = "api_request"
          /\ reqs' = <<"custom">>
          /\ last' = CallWith("custom", data, resp)
          /\ cookies' = cookies \cup resp.setCookies
          /\ csrf' = CsrfAfterApi(csrf, resp)
          /\ result' = IF ApiRaises(resp) # None THEN ApiRaises(resp) ELSE "returned"
    /\ cbCalls' = 0 /\ args' = NoArgs /\ authLevel' = None /\ loaded' = NoLoad /\ authed' = FALSE
    /\ UNCHANGED <<alive, email, lsc, useCache, cacheFile, numTry, loginCalled>>

    /\ UNCHANGED race
\* --------------------------------------------------------- get_accounts
\* resp['spData'] of a successful envelope
GetAccountsResult(resp) ==
    IF ApiRaises(resp) # None THEN ApiRaises(resp)
    ELSE IF ~resp.env.spData THEN "KeyError"
    ELSE "returned"

GetAccounts ==
    /\ pc = "idle" /\ alive
    /\ pc' = "done"
    /\ \E resp \in Responses("getAccounts2") :
          /\ op' = "get_accounts"
          /\ reqs' = <<"getAccounts2">>
          /\ last' = Call("getAccounts2", resp)
          /\ cookies' = cookies \cup resp.setCookies
          /\ csrf' = CsrfAfterApi(csrf, resp)
          /\ result' = GetAccountsResult(resp)
    /\ cbCalls' = 0 /\ args' = NoArgs /\ authLevel' = None /\ loaded' = NoLoad /\ authed' = FALSE
    /\ UNCHANGED <<alive, email, lsc, useCache, cacheFile, numTry, loginCalled>>

    /\ UNCHANGED race
\* --------------------------------------------------------- is_logged_in
\* variant: the token test is skipped
TokenMissingNever(tok) == FALSE

\* variant: the token test is inverted
TokenMissingInverted(tok) == tok # None

\* if self._csrf is None: return False
TokenMissing(tok) == tok = None

\* variant: the expiry error of the probe is not caught
IsLoggedInResultUncaught(resp) ==
    IF GetAccountsResult(resp) = "returned" THEN "true" ELSE GetAccountsResult(resp)

\* try: self.get_accounts(); return True / except ...SessionExpired...: return False
IsLoggedInResult(resp) ==
    IF GetAccountsResult(resp) = "returned" THEN "true"
    ELSE IF GetAccountsResult(resp) = "SessionExpiredError" THEN "false"
    ELSE GetAccountsResult(resp)

IsLoggedIn ==
    /\ pc = "idle" /\ alive
    /\ pc' = "done"
    /\ op' = "is_logged_in"
    /\ cbCalls' = 0 /\ args' = NoArgs /\ authLevel' = None /\ loaded' = NoLoad /\ authed' = FALSE
    /\ IF TokenMissing(csrf)
       THEN /\ result' = "false" /\ reqs' = <<>> /\ last' = NoCall
            /\ UNCHANGED <<cookies, csrf>>
       ELSE \E resp \in Responses("getAccounts2") :
               /\ reqs' = <<"getAccounts2">>
               /\ last' = Call("getAccounts2", resp)
               /\ cookies' = cookies \cup resp.setCookies
               /\ csrf' = CsrfAfterApi(csrf, resp)
               /\ result' = IsLoggedInResult(resp)
    /\ UNCHANGED <<alive, email, lsc, useCache, cacheFile, numTry, loginCalled>>

    /\ UNCHANGED race
\* ---------------------------------------------------------------- login
\* variant: the method is not validated
AuthMethodSupportedAny(m) == TRUE

\* if auth_method not in ('sms', 'email'): raise ValueError
AuthMethodSupported(m) == m \in {"sms", "email"}

\* variant: the challenge is issued whatever the authLevel
NeedsChallengeAlways(env) == TRUE

\* resp.get('spHeader', {}).get('authLevel') != 'USER_REMEMBERED'
NeedsChallenge(env) == env.authLevel # "USER_REMEMBERED"

ChallengeEndpoint(m) == IF m = "sms" THEN "challengeSms" ELSE "challengeEmail"
VerifyEndpoint(m) == IF m = "sms" THEN "authenticateSms" ELSE "authenticateEmailByCode"

\* what the landing page may be: the csrf assignment the pattern finds, or none
LandingPages == [token : Tokens \cup {None}, setCookies : SetCookieChoices]

Login(e, m) ==
    /\ pc = "idle" /\ alive
    /\ op' = "login" /\ reqs' = <<>> /\ cbCalls' = 0 /\ last' = NoCall
    /\ loginCalled' = TRUE /\ authed' = FALSE /\ loaded' = NoLoad
    /\ IF AuthMethodSupported(m)
       THEN pc' = "landing" /\ result' = "running"
       ELSE pc' = "done" /\ result' = "ValueError"
    /\ args' = [email |-> e, auth |-> m] /\ authLevel' = None
    /\ UNCHANGED <<alive, session, cacheFile, numTry>>

    /\ UNCHANGED race
\* self._csrf = re.search(..., self.session.get(_ROOT_URL).text).groups()[0]
LoginLanding ==
    /\ pc = "landing"
    /\ \E page \in LandingPages :
          /\ reqs' = Append(reqs, "landing")
          /\ cookies' = cookies \cup page.setCookies
          /\ IF page.token = None
             THEN /\ pc' = "done" /\ result' = "AttributeError" /\ UNCHANGED csrf
             ELSE /\ pc' = "identify" /\ csrf' = page.token /\ UNCHANGED result
    /\ UNCHANGED <<alive, email, lsc, useCache, cacheFile, args, authLevel, numTry, op,
                   cbCalls, last, loaded, authed, loginCalled>>

    /\ UNCHANGED race
\* one api_request of a login step: what every such step does to the log,
\* the cookies and the call record
LoginRequest(ep, resp) ==
    /\ reqs' = Append(reqs, ep)
    /\ last' = Call(ep, resp)
    /\ cookies' = cookies \cup resp.setCookies

LoginIdentify ==
    /\ pc = "identify"
    /\ \E resp \in Responses("identifyUser") :
          /\ LoginRequest("identifyUser", resp)
          /\ IF ApiRaises(resp) # None
             THEN /\ pc' = "done" /\ result' = ApiRaises(resp)
                  /\ csrf' = CsrfAfterApi(csrf, resp)
                  /\ UNCHANGED authLevel
             ELSE /\ csrf' = resp.env.csrf
                  /\ authLevel' = resp.env.authLevel
                  /\ pc' = IF NeedsChallenge(resp.env) THEN "challenge" ELSE "password"
                  /\ UNCHANGED result
    /\ UNCHANGED <<alive, email, lsc, useCache, cacheFile, args, numTry, op, cbCalls,
                   loaded, authed, loginCalled>>

    /\ UNCHANGED race
LoginChallenge ==
    /\ pc = "challenge"
    /\ \E resp \in Responses("challenge") :
          /\ LoginRequest(ChallengeEndpoint(args.auth), resp)
          /\ csrf' = CsrfAfterApi(csrf, resp)
          /\ IF ApiRaises(resp) # None
             THEN pc' = "done" /\ result' = ApiRaises(resp)
             ELSE pc' = "code" /\ UNCHANGED result
    /\ UNCHANGED <<alive, email, lsc, useCache, cacheFile, args, authLevel, numTry, op,
                   cbCalls, loaded, authed, loginCalled>>

    /\ UNCHANGED race
\* two_factor_code = get_two_factor_code_func(), then the verification request
LoginCode ==
    /\ pc = "code"
    /\ cbCalls' = cbCalls + 1
    /\ \E resp \in Responses("authenticate") :
          /\ LoginRequest(VerifyEndpoint(args.auth), resp)
          /\ csrf' = CsrfAfterApi(csrf, resp)
          /\ IF ApiRaises(resp) # None
             THEN pc' = "done" /\ result' = ApiRaises(resp)
             ELSE pc' = "password" /\ UNCHANGED result
    /\ UNCHANGED <<alive, email, lsc, useCache, cacheFile, args, authLevel, numTry, op,
                   loaded, authed, loginCalled>>

    /\ UNCHANGED race
\* variant: the cache write after the password step is left out
AfterPasswordNoCache(uc) == "refresh"

\* if self._use_cookies_cache: self._cache_cookies(), before the refresh
AfterPassword(uc) == IF uc THEN "cache_open" ELSE "refresh"

\* authenticatePassword; then self._email = email
LoginPassword ==
    /\ pc = "password"
    /\ \E resp \in Responses("authenticatePassword") :
          /\ LoginRequest("authenticatePassword", resp)
          /\ csrf' = CsrfAfterApi(csrf, resp)
          /\ IF ApiRaises(resp) # None
             THEN /\ pc' = "done" /\ result' = ApiRaises(resp)
                  /\ UNCHANGED <<email, authed>>
             ELSE /\ email' = args.email /\ authed' = TRUE
                  /\ pc' = AfterPassword(useCache)
                  /\ UNCHANGED result
    /\ UNCHANGED <<alive, lsc, useCache, cacheFile, args, authLevel, numTry, op, cbCalls,
                   loaded, loginCalled>>

    /\ UNCHANGED race
\* if last_server_change_id: self._last_server_change_id = last_server_change_id
ChangeIdAfter(old, version) ==
    IF version # NoVersion /\ version # 0 THEN version ELSE old

\* refresh_last_server_change_id(), then return self
LoginRefresh ==
    /\ pc = "refresh"
    /\ \E resp \in Responses("querySession") :
          /\ LoginRequest("querySession", resp)
          /\ csrf' = CsrfAfterApi(csrf, resp)
          /\ pc' = "done"
          /\ IF ApiRaises(resp) # None
             THEN result' = ApiRaises(resp) /\ UNCHANGED lsc
             ELSE result' = "returned" /\ lsc' = ChangeIdAfter(lsc, resp.env.version)
    /\ UNCHANGED <<alive, email, useCache, cacheFile, args, authLevel, numTry, op, cbCalls,
                   loaded, authed, loginCalled>>

    /\ UNCHANGED race
\* -------------------------------------------------------- _cache_cookies
\* with open(cache_file, 'wb') as f: the file exists and is empty from here on
CacheOpen ==
    /\ pc = "cache_open"
    /\ cacheFile' = Truncated
    /\ pc' = "cache_dump"
    /\ UNCHANGED <<alive, session, args, authLevel, numTry, op, result, reqs, cbCalls,
                   last, loaded, authed, loginCalled>>

    /\ UNCHANGED race
\* the record _cache_cookies dumps
CacheRecord(jar, mail) == Dump(CACHE_VERSION, jar, mail)

\* pickle.dump({... 'email': self._email}, f): the dict is built first, and
\* reading an attribute that was never assigned raises before anything is written
CacheDump ==
    /\ pc = "cache_dump"
    /\ IF email = Unset
       THEN /\ pc' = "done" /\ result' = "AttributeError"
            /\ UNCHANGED cacheFile
       ELSE /\ cacheFile' = CacheRecord(cookies, email)
            /\ IF op = "login"
               THEN pc' = "refresh" /\ UNCHANGED result
               ELSE pc' = "done" /\ result' = "returned"
    /\ UNCHANGED <<alive, session, args, authLevel, numTry, op, reqs, cbCalls, last,
                   loaded, authed, loginCalled>>

    /\ UNCHANGED race
\* the process is killed between the open and the dump
Crash ==
    /\ pc = "cache_dump"
    /\ alive' = FALSE /\ pc' = "idle"
    /\ op' = "none" /\ result' = "none"
    /\ csrf' = None /\ cookies' = {} /\ email' = Unset /\ lsc' = DefaultChangeId
    /\ useCache' = FALSE
    /\ args' = NoArgs /\ authLevel' = None /\ numTry' = 0 /\ reqs' = <<>> /\ cbCalls' = 0
    /\ last' = NoCall /\ loaded' = NoLoad /\ authed' = FALSE /\ loginCalled' = FALSE
    /\ UNCHANGED cacheFile

    /\ UNCHANGED race
\* ---------------------------------------------------- login_via_browser
\* up to "self._csrf = None": the username form is found and submitted, or
\* wait_and_click_by_xpath gives up and the exception is re-raised
LoginViaBrowser(e) ==
    /\ pc = "idle" /\ alive
    /\ op' = "login_via_browser" /\ reqs' = <<>> /\ cbCalls' = 0 /\ last' = NoCall
    /\ loginCalled' = TRUE /\ authed' = FALSE /\ loaded' = NoLoad /\ authLevel' = None
    /\ \E found \in BOOLEAN :
          IF found
          THEN /\ pc' = "b_loop" /\ result' = "running" /\ csrf' = None
               /\ args' = [email |-> e, auth |-> "sms"] /\ numTry' = 0
          ELSE /\ pc' = "done" /\ result' = "Exception"
               /\ args' = [email |-> e, auth |-> "sms"] /\ UNCHANGED <<csrf, numTry>>
    /\ UNCHANGED <<alive, cookies, email, lsc, useCache, cacheFile>>

    /\ UNCHANGED race
\* one pass of "for num_try in range(10)" that does not break: the challenge
\* form when the page shows one (with its call of the code callback), the
\* password form, the dashboard test; a wait_and_click_by_xpath that gives up
\* raises Exception, which neither except clause of the pass catches
BrowserPoll ==
    /\ pc = "b_loop"
    /\ numTry < LoginTries
    /\ csrf = None
    /\ \E page \in {"timeout", "other", "dashboard"}, t \in Tokens \cup {None} :
          /\ IF page = "timeout"
             THEN /\ pc' = "done" /\ result' = "Exception" /\ numTry' = 0
                  /\ UNCHANGED <<csrf, email, authed>>
             ELSE /\ numTry' = numTry + 1
                  /\ UNCHANGED <<pc, result>>
                  /\ IF page = "dashboard" /\ t # None
                     THEN csrf' = t /\ email' = args.email /\ authed' = TRUE
                     ELSE UNCHANGED <<csrf, email, authed>>
    /\ UNCHANGED <<alive, cookies, lsc, useCache, cacheFile, args, authLevel, op, reqs,
                   cbCalls, last, loaded, loginCalled>>

    /\ UNCHANGED race
\* after the loop (left by break or by exhaustion): the driver's cookies are
\* copied into the session, then "if self._use_cookies_cache: self._cache_cookies()"
BrowserFinish ==
    /\ pc = "b_loop"
    /\ csrf # None \/ numTry = LoginTries
    /\ \E jar \in SUBSET CookieNames :
          cookies' = cookies \cup jar
    /\ IF useCache
       THEN pc' = "cache_open" /\ UNCHANGED result
       ELSE pc' = "done" /\ result' = "returned"
    /\ numTry' = 0
    /\ UNCHANGED <<alive, csrf, email, lsc, useCache, cacheFile, args, authLevel, op, reqs,
                   cbCalls, last, loaded, authed, loginCalled>>

    /\ UNCHANGED race
\* ------------------------------------------------------------------ next
Next ==
    \/ \E uc \in BOOLEAN : Construct(uc)
    \/ Return
    \/ \E data \in CallerData : ApiRequest(data)
    \/ GetAccounts
    \/ IsLoggedIn
    \/ \E e \in Emails, m \in AuthMethods : Login(e, m)
    \/ LoginLanding
    \/ LoginIdentify
    \/ LoginChallenge
    \/ LoginCode
    \/ LoginPassword
    \/ LoginRefresh
    \/ CacheOpen
    \/ CacheDump
    \/ Crash
    \/ \E e \in Emails : LoginViaBrowser(e)
    \/ BrowserPoll
    \/ BrowserFinish

Spec == Init /\ [][Next]_vars

TypeOK ==
    /\ csrf \in Tokens \cup {None}
    /\ cookies \subseteq CookieNames
    /\ email \in Emails \cup {Unset}
    /\ lsc \in {DefaultChangeId, 5}
    /\ numTry \in 0..LoginTries
    /\ pc \in {"idle", "done", "landing", "identify", "challenge", "code", "password",
               "refresh", "cache_open", "cache_dump", "b_loop"}

\* ------------------------------------- _cache_cookies in several processes
\* Two further processes, each holding a logged-in Session with caching on,
\* save to the one cache file while a third constructs a Session from it.
\* Only their file operations are modelled.
session1 == <<alive, pc, csrf, cookies, email, lsc, useCache, args, authLevel, numTry,
              op, result, reqs, cbCalls, last, loaded, authed, loginCalled>>

\* a stretch of the file no process has written since the last truncation
Hole == [k |-> "hole", version |-> 0, cookies |-> {}, email |-> None]

\* write(fd, chunk) at file offset pos: each open file has an offset of its own
WriteAt(file, pos, chunk) ==
    [i \in 1..(IF Len(file) > pos + Len(chunk) THEN Len(file) ELSE pos + Len(chunk)) |->
        IF i > pos /\ i <= pos + Len(chunk) THEN chunk[i - pos]
        ELSE IF i <= Len(file) THEN file[i]
        ELSE Hole]

\* the record writer w dumps
SaverRecord(w) == CacheRecord(saver[w].jar, saver[w].mail)

SaveInProgress == \E w \in Writers : saver[w].pc = "open"

\* with open(cache_file, 'wb') as f: truncates; the dict to dump is built
SaveOpen(w, jar, mail) ==
    /\ saver[w].pc = "idle"
    /\ saver' = [saver EXCEPT ![w] = [pc |-> "open", pos |-> 0, jar |-> jar, mail |-> mail]]
    /\ cacheFile' = Truncated
    /\ UNCHANGED <<session1, loader>>

\* pickle.dump(..., f) and the close at the end of the with block: the pickle
\* reaches the file in one write or in several, the last one closes the file
SaveWrite(w, n) ==
    /\ saver[w].pc = "open"
    /\ saver[w].pos + n <= Len(SaverRecord(w))
    /\ cacheFile' = WriteAt(cacheFile, saver[w].pos,
                            SubSeq(SaverRecord(w), saver[w].pos + 1, saver[w].pos + n))
    /\ saver' = [saver EXCEPT ![w].pos = @ + n,
                              ![w].pc = IF saver[w].pos + n = Len(SaverRecord(w))
                                        THEN "closed" ELSE "open"]
    /\ UNCHANGED <<session1, loader>>

\* _load_cookies_from_cache of a Session under construction in another process
SaveLoad ==
    /\ loader' = [ran |-> TRUE, during |-> SaveInProgress,
                  raised |-> LoadOutcome(cacheFile).raised]
    /\ UNCHANGED <<session1, cacheFile, saver>>

SaveNext ==
    \/ \E w \in Writers, jar \in SUBSET CookieNames, mail \in Emails : SaveOpen(w, jar, mail)
    \/ \E w \in Writers, n \in 1..3 : SaveWrite(w, n)
    \/ SaveLoad

SpecSave == Init /\ [][SaveNext]_vars

\* ------------------------------------------------------------- properties
\* what the claims read off a state
Ended(o) == pc = "done" /\ op = o
HasFirstCode(c) ==
    c.hdr /\ c.errors.present /\ Len(c.errors.list) >= 1 /\ c.errors.list[1] # NoCode
FirstCode(c) == c.errors.list[1]
HandledUnsuccessful(c) == c.called /\ ~c.transport /\ c.unsuccessful
FileIsRecord == Len(cacheFile) = 3 /\ cacheFile[1].k = "version"
FileVersion == cacheFile[1].version
FileCookies == cacheFile[2].cookies
FileEmail == cacheFile[3].email

\* C1: for an unsuccessful envelope handled by api_request, a first reported
\* error code of 201 makes the call raise SessionExpiredError and leaves
\* csrfToken unset; any other first reported code makes it raise the generic
\* ApiError and leaves csrfToken as it was before the call.
C1_ExpiryByFirstCode ==
    (HandledUnsuccessful(last) /\ HasFirstCode(last)) =>
        IF FirstCode(last) = SessionExpiredCode
        THEN last.raised = "SessionExpiredError" /\ csrf = None
        ELSE last.raised = "ApiError" /\ csrf = last.req.csrf

C1_Witness ==
    /\ HandledUnsuccessful(last) /\ HasFirstCode(last)
    /\ FirstCode(last) = SessionExpiredCode
    /\ last.req.csrf \in Tokens /\ csrf = None
    /\ last.raised = "SessionExpiredError"

\* C2: whenever login() returns normally, csrfToken is set, identityEmail is
\* the email passed to login(), and with caching enabled the cache file holds a
\* record of the current version, which load() returns, whose cookie set is the
\* session's cookie set.
C2_LoginPostcondition ==
    (Ended("login") /\ result = "returned") =>
        /\ csrf # None
        /\ email = args.email
        /\ useCache =>
              /\ FileIsRecord /\ FileVersion = CACHE_VERSION
              /\ FileCookies = cookies
              /\ LoadOutcome(cacheFile).found

\* C3: a call of is_logged_in() in a state where csrfToken is unset returns
\* false and sends no request.
C3_NoTokenNoProbe ==
    [][(pc = "idle" /\ csrf = None /\ op' = "is_logged_in") =>
          (result' = "false" /\ reqs' = <<>> /\ ~last'.called /\ pc' = "done")]_vars

C3_Witness ==
    /\ Ended("is_logged_in") /\ loginCalled /\ csrf = None
    /\ reqs = <<>> /\ result = "false"

\* C4: is_logged_in() returns true exactly when a token was present and the
\* probe (get_accounts) succeeded; a probe that raises SessionExpiredError makes
\* it return false, and the error does not reach the caller.
ProbeSucceeded(c) == c.called /\ ~c.transport /\ ~c.unsuccessful /\ c.spData

C4_ProbeDecides ==
    Ended("is_logged_in") =>
        /\ result = "true" <=> (last.req.csrf \in Tokens /\ ProbeSucceeded(last))
        /\ (HandledUnsuccessful(last) /\ HasFirstCode(last)
               /\ FirstCode(last) = SessionExpiredCode) => result = "false"
        /\ result # "SessionExpiredError"

C4_Witness ==
    /\ Ended("is_logged_in") /\ result = "false"
    /\ HandledUnsuccessful(last) /\ HasFirstCode(last)
    /\ FirstCode(last) = SessionExpiredCode

\* C5: login() with an auth_method outside {sms, email} raises the validation
\* error before any request (the landing page included) and leaves csrfToken,
\* cookies, identityEmail and the cache file unchanged.
C5_ValidationFirst ==
    [][(pc = "idle" /\ op' = "login" /\ args'.auth \notin {"sms", "email"}) =>
          /\ result' = "ValueError" /\ pc' = "done"
          /\ reqs' = <<>> /\ ~last'.called
          /\ UNCHANGED <<csrf, cookies, email, cacheFile>>]_vars

C5_Witness ==
    /\ Ended("login") /\ args.auth = "carrier-pigeon"
    /\ result = "ValueError" /\ reqs = <<>>

\* C6: once identifyUser has answered authLevel USER_REMEMBERED, login() sends
\* no challenge and no verification request and never calls the code callback;
\* the request after identifyUser is the password submission.
ChallengeRequests ==
    {"challengeSms", "challengeEmail", "authenticateSms", "authenticateEmailByCode"}

C6_RememberedSkipsChallenge ==
    (op = "login" /\ authLevel = "USER_REMEMBERED") =>
        /\ cbCalls = 0
        /\ \A i \in 1..Len(reqs) : reqs[i] \notin ChallengeRequests
        /\ pc \notin {"challenge", "code"}
        /\ Len(reqs) = 2 => pc = "password"
        /\ Len(reqs) >= 3 => reqs[3] = "authenticatePassword"

C6_Witness ==
    /\ Ended("login") /\ authLevel = "USER_REMEMBERED" /\ result = "returned"
    /\ reqs = <<"landing", "identifyUser", "authenticatePassword", "querySession">>

\* C7: a well-formed record whose version is not the current one is never
\* returned by load(): the new Session is constructed with no hydrated cookies.
C7_StaleVersionIgnored ==
    (Ended("init") /\ FileIsRecord /\ FileVersion # CACHE_VERSION) =>
        /\ ~loaded.found
        /\ result = "returned" /\ alive
        /\ cookies = {}

C7_Witness ==
    /\ Ended("init") /\ useCache
    /\ FileIsRecord /\ FileVersion = CACHE_VERSION + 1 /\ FileCookies # {}
    /\ ~loaded.found /\ cookies = {}

\* C8: a cache file that is unreadable or does not parse (a save that stopped
\* mid-write) is a cache miss: construction completes with an empty context.
C8_BrokenFileIsMiss ==
    (Ended("init") /\ cacheFile # Absent /\ ~FileIsRecord) =>
        /\ result = "returned" /\ alive
        /\ cookies = {} /\ csrf = None

\* C9 as stated: on a Session hydrated from the record a login saved, and on
\* which no login was called, get_accounts() succeeds.
SavedByLogin ==
    FileIsRecord /\ FileVersion = CACHE_VERSION /\ FileEmail \in Emails

C10_WrittenOnlyWhenAuthenticated ==
    [][cacheFile' # cacheFile => authed]_vars

\* C11: whenever login() or login_via_browser() returns normally, csrfToken
\* is set.
C11_BothLoginsSetToken ==
    ((Ended("login") \/ Ended("login_via_browser")) /\ result = "returned") =>
        csrf # None

\* C12 as stated: api_request raises TransportError exactly for a non-2xx
\* status or a non-JSON content type, and then leaves csrfToken alone.
C12_TransportErrorIffNon2xx ==
    last.called =>
        /\ last.raised = "TransportError" <=> (last.status \notin 200..299 \/ ~last.json)
        /\ last.raised = "TransportError" => csrf = last.req.csrf

\* C12 as amended: api_request raises TransportError exactly when the status is
\* not 200 or the content type is not JSON; the body is then not read as an
\* envelope and csrfToken keeps its value, also when the body reports code 201.
C12_TransportErrorIffNot200 ==
    last.called =>
        /\ last.raised = "TransportError" <=> (last.status # 200 \/ ~last.json)
        /\ last.raised = "TransportError" => csrf = last.req.csrf

C12_Witness ==
    /\ last.called /\ last.status = 500 /\ last.json
    /\ last.unsuccessful /\ HasFirstCode(last) /\ FirstCode(last) = SessionExpiredCode
    /\ last.raised = "TransportError"
    /\ last.req.csrf \in Tokens /\ csrf = last.req.csrf

\* C13: every request api_request sends carries csrf = the csrfToken of that
\* moment, apiClient = WEB and lastServerChangeId = the id of that moment,
\* whatever data the caller passed, fields of those three names included.
C13_FixedFieldsWin ==
    [][(last' # last /\ last'.called) =>
          /\ last'.req.form["csrf"] = csrf
          /\ last'.req.form["apiClient"] = "WEB"
          /\ last'.req.form["lastServerChangeId"] = lsc
          /\ \A k \in DOMAIN last'.req.data \ {"csrf", "apiClient", "lastServerChangeId"} :
                last'.req.form[k] = last'.req.data[k]]_vars

C13_Witness ==
    /\ last.called /\ last.req.ep = "custom"
    /\ "lastServerChangeId" \in DOMAIN last.req.data
    /\ last.req.data["csrf"] = "forged" /\ last.req.form["csrf"] \in Tokens
    /\ last.req.data["apiClient"] = "MOBILE" /\ last.req.form["apiClient"] = "WEB"
    /\ last.req.data["lastServerChangeId"] = 99 /\ last.req.form["lastServerChangeId"] = 5

\* how often login() has requested endpoint ep so far
Count(ep) == Cardinality({i \in 1..Len(reqs) : reqs[i] = ep})
Requested(ep) == Count(ep) > 0

\* C14: within one login() the landing page, identifyUser, the challenge, the
\* code verification, authenticatePassword and querySession are each requested
\* at most once and the code callback is invoked at most once; an unsuccessful
\* envelope on the challenge or the verification ends login() with an error,
\* and no password request, cache write or querySession follows it.
C14_NoRetry ==
    /\ [](op = "login" =>
            /\ \A ep \in {"landing", "identifyUser", "authenticatePassword", "querySession"} :
                  Count(ep) <= 1
            /\ Count("challengeSms") + Count("challengeEmail") <= 1
            /\ Count("authenticateSms") + Count("authenticateEmailByCode") <= 1
            /\ cbCalls <= 1)
    /\ []((/\ op = "login" /\ HandledUnsuccessful(last)
           /\ last.req.ep \in {"challengeSms", "challengeEmail", "authenticateSms",
                               "authenticateEmailByCode"}) =>
            /\ pc = "done" /\ result \notin {"running", "returned"}
            /\ ~Requested("authenticatePassword") /\ ~Requested("querySession")
            /\ ~authed)
    /\ [][(op = "login" /\ pc = "done") => (op' # "login" /\ cacheFile' = cacheFile)]_vars
    /\ [][(op = "login" /\ cacheFile' # cacheFile) =>
            (reqs[Len(reqs)] = "authenticatePassword" /\ last.raised = None)]_vars

C14_Witness ==
    /\ Ended("login") /\ result = "ApiError" /\ cbCalls = 1
    /\ reqs = <<"landing", "identifyUser", "challengeSms", "authenticateSms">>
    /\ HandledUnsuccessful(last) /\ ~authed

\* C15: in login(), once authenticatePassword has succeeded, identityEmail is
\* recorded, then the cache is written (when caching is on), then querySession
\* is requested; the cache is written neither before the password success nor
\* after the querySession request, so when the refresh fails login() raises
\* and the cache of this login is already on disk.
C15_EmailCacheRefreshOrder ==
    /\ []((op = "login" /\ pc \in {"cache_open", "cache_dump"}) =>
            /\ useCache /\ authed /\ email = args.email
            /\ reqs[Len(reqs)] = "authenticatePassword" /\ last.raised = None)
    /\ []((op = "login" /\ (pc = "refresh" \/ Requested("querySession"))) =>
            /\ email = args.email /\ Count("authenticatePassword") = 1
            /\ useCache => (FileIsRecord /\ FileVersion = CACHE_VERSION
                            /\ FileEmail = args.email))
    /\ [][(op = "login" /\ cacheFile' # cacheFile) =>
            (pc \in {"cache_open", "cache_dump"} /\ ~Requested("querySession"))]_vars

C15_Witness ==
    /\ Ended("login") /\ useCache /\ result = "ApiError"
    /\ last.req.ep = "querySession" /\ last.raised = "ApiError"
    /\ FileIsRecord /\ FileVersion = CACHE_VERSION /\ FileEmail = args.email

\* a step in which api_request detected session expiry
ExpiryDetected == last' # last /\ last'.raised = "SessionExpiredError"

\* C16 as stated: on session expiry api_request clears csrfToken and nothing
\* else; cookies, identityEmail, lastServerChangeId and the cache file are
\* after the call what they were before it.
C16_ExpiryClearsTokenOnly ==
    [][ExpiryDetected =>
          (csrf' = None /\ UNCHANGED <<cookies, email, lsc, cacheFile>>)]_vars

\* C16 as amended: on session expiry api_request clears csrfToken;
\* identityEmail, lastServerChangeId and the cache file are after the call what
\* they were before it, and the cookies differ only by what the expiry
\* response itself set.
C16_ExpiryClearsTokenKeepsRest ==
    [][ExpiryDetected =>
          /\ csrf' = None /\ UNCHANGED <<email, lsc, cacheFile>>
          /\ cookies \subseteq cookies' /\ (cookies' \ cookies) \in SetCookieChoices]_vars

C16_Witness ==
    /\ last.called /\ last.raised = "SessionExpiredError"
    /\ last.req.csrf \in Tokens /\ csrf = None
    /\ email \in Emails /\ lsc = 5 /\ FileIsRecord /\ FileEmail = email
    /\ cookies # last.req.cookies

\* C17: an unsuccessful envelope that is not a session expiry makes api_request
\* raise the generic ApiError, whatever the shape of the envelope (errors
\* empty or missing, no spHeader); no other kind of error escapes.
C17_OtherFailureIsApiError ==
    (/\ HandledUnsuccessful(last)
     /\ ~(HasFirstCode(last) /\ FirstCode(last) = SessionExpiredCode)) =>
        last.raised = "ApiError"

\* C19: when login() fails with an error other than session expiry at the
\* identify, challenge, verification or password request, csrfToken is still
\* set, to the token that request was sent with, so that a following
\* is_logged_in() probes the server.
C19_FailedLoginKeepsToken ==
    (/\ Ended("login") /\ last.called /\ last.req.ep # "querySession"
     /\ result \notin {"returned", "SessionExpiredError"}) =>
        (csrf # None /\ csrf = last.req.csrf)

\* C20: a constructed Session has csrfToken unset and lastServerChangeId -1
\* whatever the cache held (no file, another version, a valid record, whose
\* cookies alone are restored), and stays so until login() or
\* login_via_browser() is called: until then is_logged_in() returns false
\* without a request.
C20_HydrationRestoresCookiesOnly ==
    /\ (Ended("init") /\ alive) =>
          /\ csrf = None /\ lsc = -1 /\ email = Unset
          /\ cookies = IF loaded.found THEN loaded.cookies ELSE {}
    /\ (alive /\ ~loginCalled) => (csrf = None /\ lsc = -1)
    /\ (Ended("is_logged_in") /\ ~loginCalled) => (result = "false" /\ reqs = <<>>)

C20_Witness ==
    /\ Ended("is_logged_in") /\ ~loginCalled /\ result = "false"
    /\ useCache /\ FileIsRecord /\ FileVersion = CACHE_VERSION
    /\ cookies = FileCookies /\ cookies # {} /\ csrf = None /\ lsc = -1

\* C18: two Sessions save to the same cache file at the same time, without a
\* lock: once both saves have finished the file holds exactly the complete
\* record of one of the two saves, and a load that runs while a save is in
\* progress does not fail.
C18_LastWriteWins ==
    /\ (\A w \in Writers : saver[w].pc = "closed") =>
          (\E w \in Writers : cacheFile = SaverRecord(w))
    /\ (loader.ran /\ loader.during) => loader.raised = None

====
